---- MODULE Spec2Model ----
(***************************************************************************)
(* Model of script.js: the DOMContentLoaded handler of the slide deck.     *)
(*   - setActiveScene (scene selector, from the URL query string),         *)
(*   - scene 1, the lock-screen exercise (Lock / Ignore / retry),          *)
(*   - scene 2, the flip-card quiz (renderCard, onSelectChoice, goToNext,  *)
(*     restartQuiz, launchConfetti, the onboarding notification).          *)
(* Time is discrete: one Tick is 100 ms.  A timer (setTimeout,             *)
(* gsap.delayedCall, a tween's completion, a timeline's onComplete) is a   *)
(* record with the ticks that remain; it fires when they reach 0, and Tick *)
(* cannot pass a timer that is due.  A handler is a function from the      *)
(* state record to the state record, so that handlers compose as they call *)
(* each other in the source.                                               *)
(***************************************************************************)
EXTENDS Integers, Sequences, FiniteSets, TLC

VARIABLES
  search,              \* window.location.search, a sequence of characters
  pc,                  \* "loading" before DOMContentLoaded, "ready" after
  display,             \* style.display of the three .scene containers
  timers,              \* pending timers / tween completions
  \* ---- scene 1
  lockBtnDisabled, ignoreBtnDisabled,
  lockToggleChecked,
  opacity,             \* opacity of the animated scene-1 elements
  errorPointerEvents,  \* errorOverlayNew.style.pointerEvents
  shake,               \* monitorShakeContainer carries class 'shake'
  retryListeners,      \* number of onRetry closures bound to .retry-btn
  typedDone,           \* Typed's onComplete has run
  \* ---- scene 2
  currentIndex, score, answered,
  frontText,           \* front.textContent
  choiceBtns,          \* the button.choice children of backChoices
  quizCardClasses,     \* quizCard.classList
  explanations,        \* the .explanation children of .quiz-card-back
  nextDisplay, nextText,
  scoreText, scoreboardDisplay,
  confetti,            \* children of confettiContainer
  notifClasses, notifDisplay,
  counted,             \* history: correct selections since (re)start
  picked,              \* history: control clicked on the rendered card, 0 if none
  selections           \* history: selections accepted since (re)start

vars == << search, pc, display, timers,
           lockBtnDisabled, ignoreBtnDisabled, lockToggleChecked, opacity,
           errorPointerEvents, shake, retryListeners, typedDone,
           currentIndex, score, answered, frontText, choiceBtns,
           quizCardClasses, explanations, nextDisplay, nextText, scoreText,
           scoreboardDisplay, confetti, notifClasses, notifDisplay,
           counted, picked, selections >>

(***************************************************************************)
(* Bounds of the model.                                                    *)
(***************************************************************************)
\* a query string is a concatenation of at most MaxParts fragments
MaxParts == 3
\* the advance control is clicked only while currentIndex < MaxIndex
MaxIndex == 7

(***************************************************************************)
(* Scene selector                                                          *)
(***************************************************************************)
Scenes == {"scene1", "scene2", "scene3"}

scene1Chars == << "s", "c", "e", "n", "e", "1" >>
scene2Chars == << "s", "c", "e", "n", "e", "2" >>
scene3Chars == << "s", "c", "e", "n", "e", "3" >>

\* String.prototype.toLowerCase, character by character
LowerChar(c) ==
  CASE c = "S" -> "s" [] c = "C" -> "c" [] c = "E" -> "e" [] c = "N" -> "n"
    [] c = "X" -> "x" [] OTHER -> c

toLowerCase(str) == [i \in 1..Len(str) |-> LowerChar(str[i])]

\* String.prototype.includes
includes(str, sub) ==
  \E i \in 0..(Len(str) - Len(sub)) : SubSeq(str, i + 1, i + Len(sub)) = sub

\* setActiveScene lines 16-24: the scene id chosen for a query string
sceneIdFor_scene3First(q) ==
  LET s == toLowerCase(q) IN
  IF includes(s, scene3Chars) THEN "scene3"
  ELSE IF includes(s, scene2Chars) THEN "scene2"
  ELSE "scene1"

sceneIdFor(q) ==
  LET s == toLowerCase(q) IN
  IF includes(s, scene2Chars) THEN "scene2"
  ELSE IF includes(s, scene3Chars) THEN "scene3"
  ELSE IF includes(s, scene1Chars) THEN "scene1"
  ELSE "scene1"

\* setActiveScene lines 25-31: hide every .scene, show the chosen one
setActiveScene(s) ==
  [s EXCEPT !.display =
     [sc \in Scenes |-> IF sc = sceneIdFor(s.search) THEN "block" ELSE "none"]]

\* the fragments query strings are built from
Fragments ==
  { << "?" >>,
    << "s", "c", "e", "n", "e", "1" >>,
    << "S", "c", "e", "n", "e", "2" >>,
    << "S", "C", "E", "N", "E", "3" >>,
    << "s", "c", "e", "n", "e" >>,
    << "2" >>,
    << "&", "x", "=", "3" >> }

RECURSIVE QueriesUpTo(_)
QueriesUpTo(n) ==
  IF n = 0 THEN { << >> }
  ELSE LET shorter == QueriesUpTo(n - 1) IN
       shorter \cup { q \o f : q \in shorter, f \in Fragments }

Queries == QueriesUpTo(MaxParts)

\* the query strings the sessions of scene 1 and of scene 2 are explored from
LockQueries == { << >>, << "?", "s", "c", "e", "n", "e", "1" >> }
QuizQueries == { << "?", "S", "c", "e", "n", "e", "2" >> }

(***************************************************************************)
(* The state as one record, and timers                                     *)
(***************************************************************************)
S ==
  [ search |-> search, display |-> display, timers |-> timers,
    lockBtnDisabled |-> lockBtnDisabled, ignoreBtnDisabled |-> ignoreBtnDisabled,
    lockToggleChecked |-> lockToggleChecked, opacity |-> opacity,
    errorPointerEvents |-> errorPointerEvents, shake |-> shake,
    retryListeners |-> retryListeners, typedDone |-> typedDone,
    currentIndex |-> currentIndex, score |-> score, answered |-> answered,
    frontText |-> frontText, choiceBtns |-> choiceBtns,
    quizCardClasses |-> quizCardClasses, explanations |-> explanations,
    nextDisplay |-> nextDisplay, nextText |-> nextText, scoreText |-> scoreText,
    scoreboardDisplay |-> scoreboardDisplay, confetti |-> confetti,
    notifClasses |-> notifClasses, notifDisplay |-> notifDisplay ]

Commit(t) ==
  /\ currentIndex' = t.currentIndex
  /\ lockBtnDisabled' = t.lockBtnDisabled
  /\ ignoreBtnDisabled' = t.ignoreBtnDisabled
  /\ lockToggleChecked' = t.lockToggleChecked
  /\ opacity' = t.opacity
  /\ errorPointerEvents' = t.errorPointerEvents
  /\ shake' = t.shake
  /\ retryListeners' = t.retryListeners
  /\ typedDone' = t.typedDone
  /\ score' = t.score
  /\ answered' = t.answered
  /\ frontText' = t.frontText
  /\ choiceBtns' = t.choiceBtns
  /\ quizCardClasses' = t.quizCardClasses
  /\ explanations' = t.explanations
  /\ nextDisplay' = t.nextDisplay
  /\ nextText' = t.nextText
  /\ scoreText' = t.scoreText
  /\ scoreboardDisplay' = t.scoreboardDisplay
  /\ confetti' = t.confetti
  /\ notifClasses' = t.notifClasses
  /\ notifDisplay' = t.notifDisplay
  /\ timers' = t.timers
  /\ display' = t.display
  /\ search' = t.search

\* A timer: kind names the callback, rem the ticks left, h whether
\* notificationEl._timeout still holds its id; a tween completion carries the
\* animated element and the opacity it ends at.
Timer(kind, rem) == [kind |-> kind, rem |-> rem, h |-> FALSE, prop |-> "", val |-> 0]
Tween(prop, val, rem) == [kind |-> "tween", rem |-> rem, h |-> FALSE, prop |-> prop, val |-> val]

\* durations, in ticks of 100 ms
ShowDelay == 10
HideDelay == 8
ShakeDuration == 7

(***************************************************************************)
(* Scene 2: quiz data                                                      *)
(***************************************************************************)
Choice(text, correct, message) == [text |-> text, correct |-> correct, message |-> message]

quizData ==
  << [ scenario |-> "An employee uses their personal phone to take a picture of a workplace incident.",
       choices |-> <<
         Choice("Breach of Policy", TRUE, "Using personal phones for incident reports is risky. Use official devices."),
         Choice("Safe Practice", FALSE, "Even for good intentions, personal devices are not secure."),
         Choice("Encouraged for Transparency", FALSE, "Transparency matters - but security protocols come first.") >> ],
     [ scenario |-> "You find a USB drive labeled 'Staff Menu 2024' in the pantry.",
       choices |-> <<
         Choice("Report to IT Immediately", TRUE, "It could be a bait. Never plug unknown devices."),
         Choice("Plug It In to Check Contents", FALSE, "Could contain malware or keyloggers."),
         Choice("Leave It on the Table", FALSE, "Someone else may fall into the trap.") >> ],
     [ scenario |-> "Someone walks behind you and says: 'I'm from the audit team, can you hold the door?'",
       choices |-> <<
         Choice("Politely Refuse and Ask for ID", TRUE, "Always verify. No badge = no access."),
         Choice("Hold the Door", FALSE, "Could be social engineering. Tailgating is a real threat."),
         Choice("Assume They're an Employee", FALSE, "Never assume. It's your responsibility to check.") >> ],
     [ scenario |-> "You spot a coworker's password written on a sticky note stuck to their monitor.",
       choices |-> <<
         Choice("Remind Them & Report to IT If Needed", TRUE, "Writing passwords down puts systems at risk."),
         Choice("Ignore It", FALSE, "Ignoring puts your team in danger."),
         Choice("Take Note for Emergency Use", FALSE, "That's unauthorized access - a serious offence.") >> ],
     [ scenario |-> "A colleague sends a customer's allergy info in a WhatsApp message for delivery coordination.",
       choices |-> <<
         Choice("Data Breach", TRUE, "Personal apps are not protected. Use official tools only."),
         Choice("OK for Quick Tasks", FALSE, "Speed doesn't justify insecure sharing."),
         Choice("Not an Issue if Deleted Later", FALSE, "Data can be backed up to cloud even after deletion.") >> ] >>

\* the orders choices.sort(() => Math.random() - 0.5) can leave n choices in
Perms(n) == { p \in [1..n -> 1..n] : \A i, j \in 1..n : p[i] = p[j] => i = j }

\* btn.dataset.correct = choice.correct: a dataset value is a string
datasetString(b) == IF b THEN "true" ELSE "false"

(***************************************************************************)
(* Scene 2: onboarding notification                                        *)
(***************************************************************************)
\* showNotification (positionNotification only moves the bubble)
showNotification(s) ==
  [s EXCEPT !.notifClasses = (@ \ {"hide"}) \cup {"show"}]

\* hideNotification
hideNotification_immediate(s) ==
  IF "show" \notin s.notifClasses THEN s
  ELSE [s EXCEPT !.notifClasses = (@ \ {"show"}) \cup {"hide"},
                 !.notifDisplay = "none"]

hideNotification(s) ==
  IF "show" \notin s.notifClasses THEN s
  ELSE [s EXCEPT !.notifClasses = (@ \ {"show"}) \cup {"hide"},
                 !.timers = @ \cup {Timer("hideNotif", HideDelay)}]

\* the callback of hideNotification's setTimeout
hideTimeout(s) ==
  IF "hide" \in s.notifClasses THEN [s EXCEPT !.notifDisplay = "none"] ELSE s

(***************************************************************************)
(* Scene 2: renderCard                                                     *)
(***************************************************************************)
\* lines 338-350: one button per choice, in the shuffled order
makeButtons_sameChoice(data, perm) ==
  [k \in 1..Len(data.choices) |->
     LET choice == data.choices[perm[1]] IN
     [ text |-> choice.text, correct |-> datasetString(choice.correct),
       message |-> choice.message, classes |-> {}, disabled |-> FALSE ]]

makeButtons(data, perm) ==
  [k \in 1..Len(data.choices) |->
     LET choice == data.choices[perm[k]] IN
     [ text |-> choice.text, correct |-> datasetString(choice.correct),
       message |-> choice.message, classes |-> {}, disabled |-> FALSE ]]

\* lines 369-386: the notification timer
renderNotification_noClear(s, idx) ==
  IF idx = 0
    THEN [s EXCEPT !.timers =
            { [t EXCEPT !.h = FALSE] : t \in @ }
              \cup { [Timer("showNotif", ShowDelay) EXCEPT !.h = TRUE] }]
    ELSE hideNotification(s)

renderNotification(s, idx) ==
  LET cleared == [s EXCEPT !.timers = { t \in @ : ~(t.kind = "showNotif" /\ t.h) }] IN
  IF idx = 0
    THEN [cleared EXCEPT !.timers =
            { [t EXCEPT !.h = FALSE] : t \in @ }
              \cup { [Timer("showNotif", ShowDelay) EXCEPT !.h = TRUE] }]
    ELSE hideNotification(cleared)

\* line 359
advanceLabel_offByOne(idx) == IF idx < Len(quizData) THEN "Next" ELSE "Finish"

advanceLabel(idx) == IF idx < Len(quizData) - 1 THEN "Next" ELSE "Finish"

renderCard_keepNext(s, idx, perm) ==
  LET data == quizData[idx + 1]
      s1 == [s EXCEPT
               !.frontText = data.scenario,
               !.choiceBtns = makeButtons(data, perm),
               !.explanations = IF @ = << >> THEN @ ELSE Tail(@),
               !.answered = FALSE,
               !.quizCardClasses = @ \ {"correct", "wrong", "flipped"},
               !.nextText = advanceLabel(idx)]
  IN renderNotification(s1, idx)

renderCard(s, idx, perm) ==
  LET data == quizData[idx + 1]
      s1 == [s EXCEPT
               !.frontText = data.scenario,
               !.choiceBtns = makeButtons(data, perm),
               \* back.querySelector('.explanation') removes the first one only
               !.explanations = IF @ = << >> THEN @ ELSE Tail(@),
               !.answered = FALSE,
               !.quizCardClasses = @ \ {"correct", "wrong", "flipped"},
               !.nextDisplay = "none",
               !.nextText = advanceLabel(idx)]
  IN renderNotification(s1, idx)

(***************************************************************************)
(* Scene 2: handlers                                                       *)
(***************************************************************************)
\* the click listener of quizCard (lines 391-411)
quizCardClick(s) ==
  LET s1 == IF "flipped" \notin s.quizCardClasses /\ ~s.answered
              THEN [s EXCEPT !.quizCardClasses = @ \cup {"flipped"}]
              ELSE s
  IN hideNotification(s1)

\* onSelectChoice, e.currentTarget being the i-th control
\* line 416: a selection on an answered card is ignored
selectionIgnored_never(s) == FALSE

selectionIgnored(s) == s.answered

\* line 419: the control's dataset says it is the correct choice
isCorrectChoice_truthy(btn) == btn.correct # ""

isCorrectChoice(btn) == btn.correct = "true"

\* lines 430-436: every control is disabled, the correct sibling highlighted
disableAndReveal_noReveal(btns, i) ==
  [k \in DOMAIN btns |-> [btns[k] EXCEPT !.disabled = TRUE]]

disableAndReveal(btns, i) ==
  [k \in DOMAIN btns |->
     [btns[k] EXCEPT
        !.disabled = TRUE,
        !.classes = IF k # i /\ btns[k].correct = "true"
                      THEN @ \cup {"correct"} ELSE @]]

onSelectChoice(s, i) ==
  IF selectionIgnored(s) THEN s
  ELSE
    LET btn == s.choiceBtns[i]
        isCorrect == isCorrectChoice(btn)
        mark == IF isCorrect THEN "correct" ELSE "wrong"
    IN [s EXCEPT
          !.answered = TRUE,
          !.score = IF isCorrect THEN @ + 1 ELSE @,
          !.quizCardClasses = @ \cup {mark},
          !.choiceBtns = disableAndReveal([@ EXCEPT ![i].classes = @ \cup {mark}], i),
          !.explanations = Append(@, btn.message),
          !.nextDisplay = "block"]

colours == << "rgba(143, 247, 122, 0.9)", "rgba(196, 158, 234, 0.9)",
              "rgba(146, 224, 128, 0.9)", "rgba(91, 192, 235, 0.9)" >>

pieceCount == 40

\* launchConfetti: the container is emptied, then pieceCount pieces are added;
\* a piece is modelled by its colour (its size, position and timing are random
\* and read by nothing)
launchConfetti(s) ==
  [s EXCEPT !.confetti =
     [i \in 1..pieceCount |-> colours[((i - 1) % Len(colours)) + 1]]]

\* the template literal of line 458
scoreLine(n, total) == "Score: " \o ToString(n) \o "/" \o ToString(total)

\* line 464
perfectScore(s) == s.score = Len(quizData)

\* goToNext; perm is the order the shuffle of renderCard yields
goToNext_earlyFinish(s, perm) ==
  LET s1 == [s EXCEPT !.currentIndex = @ + 1] IN
  IF s1.currentIndex < Len(quizData) - 1
    THEN renderCard(s1, s1.currentIndex, perm)
    ELSE
      LET s2 == [s1 EXCEPT !.scoreText = scoreLine(s1.score, Len(quizData)),
                           !.scoreboardDisplay = "flex"]
      IN IF perfectScore(s2) THEN launchConfetti(s2) ELSE s2

goToNext(s, perm) ==
  LET s1 == [s EXCEPT !.currentIndex = @ + 1] IN
  IF s1.currentIndex < Len(quizData)
    THEN renderCard(s1, s1.currentIndex, perm)
    ELSE
      LET s2 == [s1 EXCEPT !.scoreText = scoreLine(s1.score, Len(quizData)),
                           !.scoreboardDisplay = "flex"]
      IN IF perfectScore(s2) THEN launchConfetti(s2) ELSE s2

\* restartQuiz
restartQuiz_keepConfetti(s, perm) ==
  renderCard([s EXCEPT !.currentIndex = 0,
                       !.score = 0,
                       !.answered = FALSE,
                       !.scoreboardDisplay = "none"],
             0, perm)

restartQuiz_keepScore(s, perm) ==
  renderCard([s EXCEPT !.currentIndex = 0,
                       !.answered = FALSE,
                       !.scoreboardDisplay = "none",
                       !.confetti = << >>],
             0, perm)

restartQuiz(s, perm) ==
  renderCard([s EXCEPT !.currentIndex = 0,
                       !.score = 0,
                       !.answered = FALSE,
                       !.scoreboardDisplay = "none",
                       !.confetti = << >>],
             0, perm)

(***************************************************************************)
(* Scene 1: the lock-screen exercise                                       *)
(***************************************************************************)
disableButtons_lockOnly(s, state) == [s EXCEPT !.lockBtnDisabled = state]

disableButtons(s, state) ==
  [s EXCEPT !.lockBtnDisabled = state, !.ignoreBtnDisabled = state]

\* The elements whose opacity the model follows.  The tweens of the card, the
\* locked text, the success check and the subtext take their place in a
\* timeline but their values are read by nothing.
Overlays == {"lockedOverlay", "errorOverlay"}

\* A gsap timeline under construction: end is its duration so far, items the
\* timers its children contribute.  to(...) with position '-=back' starts the
\* child back ticks before the current end.
emptyTimeline == [end |-> 0, items |-> {}]

tlTo(tl, prop, val, dur, back) ==
  LET start == tl.end - back IN
  [ end |-> IF start + dur > tl.end THEN start + dur ELSE tl.end,
    items |-> IF prop \in Overlays
                THEN tl.items \cup {Tween(prop, val, start + dur)}
                ELSE tl.items ]

\* a child's onStart callback fires at the child's start
tlOnStart(tl, kind, back) ==
  [tl EXCEPT !.items = @ \cup {Timer(kind, tl.end - back)}]

\* New tweens and callbacks join the pending ones.  gsap renders the tweens
\* of one target in the order they were created, in every tick, so of two
\* tweens of one property that end in the same tick the later one writes
\* last: the earlier one's end value is never seen.
startTweens(pending, items) ==
  { t \in pending :
      ~(t.kind = "tween" /\
        \E n \in items : n.kind = "tween" /\ n.prop = t.prop /\ n.rem = t.rem) }
    \cup items

\* runLockSequence.  Durations and '-=' offsets in ticks: card 0.5 s; locked
\* overlay 0.6 s at '-=0.3'; locked text 0.6 s at '-=0.4'; success check 0.6 s
\* at '-=0.4'; subtext 0.6 s at '-=0.3'.
runLockSequence(s) ==
  LET s1 == [disableButtons(s, TRUE) EXCEPT !.lockToggleChecked = FALSE]
      t1 == tlTo(emptyTimeline, "card", 0, 5, 0)
      t2 == tlTo(tlOnStart(t1, "lockedOverlayStart", 3), "lockedOverlay", 1, 6, 3)
      t3 == tlTo(t2, "lockedText", 1, 6, 4)
      t4 == tlTo(t3, "successCheck", 1, 6, 4)
      t5 == tlTo(t4, "lockedSubtext", 1, 6, 3)
  IN [s1 EXCEPT !.timers = startTweens(@, t5.items)]

\* onRetry, one bound closure: the listener unbinds itself and starts the
\* reverse timeline (overlay 0.4 s, card 0.4 s at '-=0.3')
onRetry_keepListener(s) ==
  LET t1 == tlTo(emptyTimeline, "errorOverlay", 0, 4, 0)
      t2 == tlTo(t1, "card", 1, 4, 3)
  IN [s EXCEPT !.timers =
                 startTweens(@, t2.items \cup {Timer("retryComplete", t2.end)})]

onRetry(s) ==
  LET t1 == tlTo(emptyTimeline, "errorOverlay", 0, 4, 0)
      t2 == tlTo(t1, "card", 1, 4, 3)
  IN [s EXCEPT !.retryListeners = @ - 1,
               !.timers =
                 startTweens(@, t2.items \cup {Timer("retryComplete", t2.end)})]

\* the timeline's onComplete of onRetry
retryComplete(s) ==
  disableButtons([s EXCEPT !.errorPointerEvents = "none"], FALSE)

\* runErrorSequence (error overlay fades in over 0.4 s)
runErrorSequence_noDisable(s) ==
  [s EXCEPT
     !.timers = startTweens(@, { Tween("errorOverlay", 1, 4),
                                 Timer("shakeOff", ShakeDuration) }),
     !.shake = TRUE,
     !.errorPointerEvents = "auto",
     !.retryListeners = @ + 1]

runErrorSequence(s) ==
  LET s1 == disableButtons(s, TRUE) IN
  [s1 EXCEPT
     !.timers = startTweens(@, { Tween("errorOverlay", 1, 4),
                                 Timer("shakeOff", ShakeDuration) }),
     !.shake = TRUE,
     !.errorPointerEvents = "auto",
     !.retryListeners = @ + 1]

\* a click on .retry-btn runs every bound listener
RECURSIVE retryClick(_, _)
retryClick(s, n) == IF n = 0 THEN s ELSE retryClick(onRetry(s), n - 1)

\* what a timer does when it fires
fire(s, t) ==
  CASE t.kind = "showNotif" -> showNotification(s)
    [] t.kind = "hideNotif" -> hideTimeout(s)
    [] t.kind = "shakeOff" -> [s EXCEPT !.shake = FALSE]
    [] t.kind = "retryComplete" -> retryComplete(s)
    [] t.kind = "lockedOverlayStart" ->
         \* gsap.delayedCall(0.4, ...)
         [s EXCEPT !.timers = @ \cup {Timer("lockToggleOn", 4)}]
    [] t.kind = "lockToggleOn" -> [s EXCEPT !.lockToggleChecked = TRUE]
    [] t.kind = "tween" -> [s EXCEPT !.opacity[t.prop] = t.val]

(***************************************************************************)
(* The page                                                                *)
(***************************************************************************)
\* The DOMContentLoaded handler: setActiveScene, the wiring of scene 1 (its
\* entry animations change the look of the monitor and the card only, and the
\* Typed effect reports back through TypedComplete), renderCard(0).
load(s, perm) == renderCard(setActiveScene(s), 0, perm)

\* The document before the script runs: no inline style is set, no class is
\* added; the overlays are transparent.
InitDocument ==
  /\ pc = "loading"
  /\ display = [sc \in Scenes |-> ""]
  /\ timers = {}
  /\ lockBtnDisabled = FALSE
  /\ ignoreBtnDisabled = FALSE
  /\ lockToggleChecked = FALSE
  /\ opacity = [e \in Overlays |-> 0]
  /\ errorPointerEvents = ""
  /\ shake = FALSE
  /\ retryListeners = 0
  /\ typedDone = FALSE
  /\ currentIndex = 0
  /\ score = 0
  /\ answered = FALSE
  /\ frontText = ""
  /\ choiceBtns = << >>
  /\ quizCardClasses = {}
  /\ explanations = << >>
  /\ nextDisplay = ""
  /\ nextText = ""
  /\ scoreText = ""
  /\ scoreboardDisplay = ""
  /\ confetti = << >>
  /\ notifClasses = {}
  /\ notifDisplay = ""
  /\ counted = 0
  /\ picked = 0
  /\ selections = 0

Shown(sc) == pc = "ready" /\ display[sc] = "block"

Load ==
  /\ pc = "loading"
  /\ pc' = "ready"
  /\ \E perm \in Perms(3) : Commit(load(S, perm))
  /\ UNCHANGED << counted, picked, selections >>

\* Typed's onComplete (the buttons' entrance tween changes nothing but their look)
TypedComplete ==
  /\ pc = "ready" /\ ~typedDone
  /\ Commit([S EXCEPT !.typedDone = TRUE])
  /\ UNCHANGED << pc, counted, picked, selections >>

\* a click reaches an enabled button of the displayed scene
LockClick ==
  /\ Shown("scene1") /\ ~lockBtnDisabled
  /\ Commit(runLockSequence(S))
  /\ UNCHANGED << pc, counted, picked, selections >>

IgnoreClick ==
  /\ Shown("scene1") /\ ~ignoreBtnDisabled
  /\ Commit(runErrorSequence(S))
  /\ UNCHANGED << pc, counted, picked, selections >>

RetryClick ==
  /\ Shown("scene1")
  /\ Commit(retryClick(S, retryListeners))
  /\ UNCHANGED << pc, counted, picked, selections >>

CardClick ==
  /\ Shown("scene2")
  /\ Commit(quizCardClick(S))
  /\ UNCHANGED << pc, counted, picked, selections >>

\* The click listener of the i-th choice control runs, then the click bubbles
\* to quizCard.  The listener's own guard is what stops a repeated selection,
\* so the attempt is delivered whether or not the control is disabled.
\* counted, picked and selections follow the question's data, not the listener.
SelectChoice(i) ==
  /\ Shown("scene2")
  /\ Commit(quizCardClick(onSelectChoice(S, i)))
  /\ counted' = IF ~answered
                   /\ \E c \in 1..Len(quizData[currentIndex + 1].choices) :
                        LET ch == quizData[currentIndex + 1].choices[c] IN
                        ch.text = choiceBtns[i].text /\ ch.correct
                  THEN counted + 1 ELSE counted
  /\ picked' = IF answered THEN picked ELSE i
  /\ selections' = IF answered THEN selections ELSE selections + 1
  /\ UNCHANGED pc

Select == \E i \in DOMAIN choiceBtns : SelectChoice(i)

\* the advance control can be clicked while it is displayed
NextClick ==
  /\ Shown("scene2") /\ nextDisplay = "block"
  /\ currentIndex < MaxIndex
  /\ \E perm \in Perms(3) : Commit(goToNext(S, perm))
  /\ picked' = IF currentIndex + 1 < Len(quizData) THEN 0 ELSE picked
  /\ UNCHANGED << pc, counted, selections >>

\* the restart control can be clicked while the scoreboard is displayed
RestartClick ==
  /\ Shown("scene2") /\ scoreboardDisplay = "flex"
  /\ \E perm \in Perms(3) : Commit(restartQuiz(S, perm))
  /\ counted' = 0
  /\ picked' = 0
  /\ selections' = 0
  /\ UNCHANGED pc

\* a due timer fires
Fire ==
  /\ pc = "ready"
  /\ \E t \in timers :
       /\ t.rem = 0
       /\ Commit(fire([S EXCEPT !.timers = @ \ {t}], t))
  /\ UNCHANGED << pc, counted, picked, selections >>

\* 100 ms pass
Tick ==
  /\ pc = "ready"
  /\ \A t \in timers : t.rem > 0
  /\ Commit([S EXCEPT !.timers = { [t EXCEPT !.rem = @ - 1] : t \in @ }])
  /\ UNCHANGED << pc, counted, picked, selections >>

\* the scene selector alone, over every query string of the bound
InitScene == search \in Queries /\ InitDocument
NextScene == Load
SceneSpec == InitScene /\ [][NextScene]_vars

\* a session of the quiz (scene 2 displayed)
InitQuiz == search \in QuizQueries /\ InitDocument
NextQuiz ==
  \/ Load
  \/ CardClick
  \/ Select
  \/ NextClick
  \/ RestartClick
  \/ Fire
  \/ Tick
QuizSpec == InitQuiz /\ [][NextQuiz]_vars

\* a session of the lock-screen exercise (scene 1 displayed)
InitLock == search \in LockQueries /\ InitDocument
NextLock ==
  \/ Load
  \/ TypedComplete
  \/ LockClick
  \/ IgnoreClick
  \/ RetryClick
  \/ Fire
  \/ Tick
LockSpec == InitLock /\ [][NextLock]_vars

\* time passes and a due timer fires
LockFair == LockSpec /\ WF_vars(Tick) /\ WF_vars(Fire)

(***************************************************************************)
(* Claims                                                                  *)
(***************************************************************************)
\* the question whose scenario the card shows
RenderedQuestion == CHOOSE q \in 1..Len(quizData) : quizData[q].scenario = frontText

\* the data of the choice the k-th control was built from
DataOf(k) ==
  LET cs == quizData[RenderedQuestion].choices IN
  cs[CHOOSE c \in 1..Len(cs) : cs[c].text = choiceBtns[k].text]

Marks == {"correct", "wrong"}

\* a character of the query string matches a lower-case letter of a scene name
\* whatever its case
SameLetter(c, l) ==
  c = l \/ << c, l >> \in { << "S", "s" >>, << "C", "c" >>, << "E", "e" >>, << "N", "n" >> }

Mentions(q, name) ==
  \E i \in 1..Len(q) :
    /\ i + Len(name) - 1 <= Len(q)
    /\ \A j \in 1..Len(name) : SameLetter(q[i + j - 1], name[j])

\* C1: once the page is loaded, the scene shown is scene2 if the query string
\* mentions scene2 in any case, otherwise scene3 if it mentions scene3,
\* otherwise scene1; that scene's container is displayed and every other
\* container is hidden.
C1_SceneSelected ==
  pc = "ready" =>
    LET chosen == IF Mentions(search, scene2Chars) THEN "scene2"
                  ELSE IF Mentions(search, scene3Chars) THEN "scene3"
                  ELSE "scene1"
    IN /\ display[chosen] = "block"
       /\ \A sc \in Scenes \ {chosen} : display[sc] = "none"
       /\ Cardinality({ sc \in Scenes : display[sc] # "none" }) = 1

\* a query string in mixed case that names scene3 before scene2 shows scene2
C1_Witness ==
  /\ pc = "ready"
  /\ Mentions(search, scene2Chars) /\ Mentions(search, scene3Chars)
  /\ search # toLowerCase(search)
  /\ display["scene2"] = "block" /\ display["scene3"] = "none"

\* C2: a selection on an unanswered card sets answered; a selection attempt on
\* an answered card leaves answered, the score, the marks of the controls and
\* of the card, and the explanation nodes as they were.
C2_SelectOnce ==
  [][ \A i \in DOMAIN choiceBtns :
        SelectChoice(i) =>
          /\ answered'
          /\ answered =>
                /\ score' = score
                /\ choiceBtns' = choiceBtns
                /\ quizCardClasses' \cap Marks = quizCardClasses \cap Marks
                /\ explanations' = explanations ]_vars

\* an answered card, on which a further attempt can be made
C2_Witness ==
  /\ Shown("scene2") /\ answered
  /\ picked \in DOMAIN choiceBtns
  /\ choiceBtns[picked].disabled
  /\ Len(explanations) = 1
  /\ score = 1

\* C3: while the scoreboard is shown, the score is the number of correct
\* selections since the session started or was restarted, and the scoreboard
\* reads "Score: <that number>/5".
C3_ScoreIsCorrectCount ==
  scoreboardDisplay = "flex" =>
    /\ score = counted
    /\ scoreText = "Score: " \o ToString(counted) \o "/5"

\* a finished run with some answers right and some wrong
C3_Witness ==
  /\ scoreboardDisplay = "flex"
  /\ counted = 3
  /\ scoreText = "Score: 3/5"

\* C4: the confetti container holds 0 or 40 particles; it holds 40 only while
\* the scoreboard shows a perfect score; and while the scoreboard is shown it
\* holds 40 if the five answers were correct and none otherwise.
C4_ConfettiOnlyOnPerfect ==
  /\ Len(confetti) \in {0, 40}
  /\ Len(confetti) = 40 =>
        scoreboardDisplay = "flex" /\ scoreText = "Score: 5/5"
  /\ scoreboardDisplay = "flex" =>
        Len(confetti) = (IF counted = 5 THEN 40 ELSE 0)

\* a perfect run has ended
C4_Witness ==
  /\ scoreboardDisplay = "flex" /\ counted = 5
  /\ Len(confetti) = 40

\* C5: a restart leaves index 0, score 0, answered false, the scoreboard
\* hidden, no confetti particle, and question 0 rendered afresh: front side
\* up, no mark on the card or on a control, every control enabled, the
\* advance control hidden.
C5_RestartResets ==
  [][ RestartClick =>
        /\ currentIndex' = 0 /\ score' = 0 /\ ~answered'
        /\ scoreboardDisplay' = "none"
        /\ confetti' = << >>
        /\ frontText' = quizData[1].scenario
        /\ quizCardClasses' \cap (Marks \cup {"flipped"}) = {}
        /\ \A k \in DOMAIN choiceBtns' :
             choiceBtns'[k].classes = {} /\ ~choiceBtns'[k].disabled
        /\ nextDisplay' = "none" ]_vars

\* question 0 after a perfect run was restarted: the score line of the run is
\* still in the hidden scoreboard, its particles are gone
C5_Witness ==
  /\ pc = "ready"
  /\ scoreText = "Score: 5/5" /\ scoreboardDisplay = "none"
  /\ currentIndex = 0 /\ score = 0 /\ ~answered
  /\ confetti = << >>
  /\ nextDisplay = "none"

NumQuestions == Len(quizData)

\* C6: currentIndex and score are integers between 0 and the number of
\* questions, in every reachable state.
C6_IndexAndScoreInRange ==
  /\ currentIndex \in 0..NumQuestions
  /\ score \in 0..NumQuestions

\* C7: before an answer no control carries a mark.  After an answer the
\* clicked control carries exactly one mark, correct or wrong as its data
\* says; no other control carries the wrong mark; exactly one control carries
\* the correct mark and it is the one whose data says correct; and every
\* control is disabled.
C7_MarksAfterAnswer ==
  pc = "ready" =>
    /\ picked = 0 => \A k \in DOMAIN choiceBtns : choiceBtns[k].classes = {}
    /\ picked # 0 =>
          /\ picked \in DOMAIN choiceBtns
          /\ choiceBtns[picked].classes =
                (IF DataOf(picked).correct THEN {"correct"} ELSE {"wrong"})
          /\ \A k \in DOMAIN choiceBtns :
                /\ "wrong" \in choiceBtns[k].classes => k = picked
                /\ "correct" \in choiceBtns[k].classes <=> DataOf(k).correct
                /\ choiceBtns[k].disabled
          /\ Cardinality({ k \in DOMAIN choiceBtns : "correct" \in choiceBtns[k].classes }) = 1

\* a wrong choice was picked: it alone is marked wrong, a sibling is marked correct
C7_Witness ==
  /\ pc = "ready" /\ picked # 0
  /\ choiceBtns[picked].classes = {"wrong"}
  /\ \E k \in DOMAIN choiceBtns : k # picked /\ choiceBtns[k].classes = {"correct"}

\* C8: the card holds exactly 3 choice controls; they are the choices of one
\* question (text, correctness flag, message) in some order, each once; that
\* question is the current one while currentIndex is in range; exactly one
\* control carries correct = "true".
C8_ControlsArePermutation ==
  pc = "ready" =>
    /\ Len(choiceBtns) = 3
    /\ \E q \in 1..NumQuestions :
         /\ frontText = quizData[q].scenario
         /\ currentIndex < NumQuestions => q = currentIndex + 1
         /\ \E p \in Perms(3) :
              \A k \in 1..3 :
                /\ choiceBtns[k].text = quizData[q].choices[p[k]].text
                /\ choiceBtns[k].message = quizData[q].choices[p[k]].message
                /\ (choiceBtns[k].correct = "true") = quizData[q].choices[p[k]].correct
    /\ Cardinality({ k \in 1..3 : choiceBtns[k].correct = "true" }) = 1

\* the third question rendered with its correct choice last
C8_Witness ==
  /\ pc = "ready" /\ currentIndex = 2
  /\ Len(choiceBtns) = 3
  /\ choiceBtns[3].text = quizData[3].choices[1].text
  /\ choiceBtns[1].text = quizData[3].choices[3].text

\* C9: an advance adds one to currentIndex.  If the new index is in range the
\* card of that question is rendered afresh (not answered, front side up, no
\* mark, no explanation, advance control hidden) and the advance control
\* reads "Finish" on the last question and "Next" on the others.  If not, the
\* scoreboard is shown and the card is left as it was.
C9_AdvanceStep ==
  [][ NextClick =>
        /\ currentIndex' = currentIndex + 1
        /\ currentIndex' < NumQuestions =>
              /\ frontText' = quizData[currentIndex' + 1].scenario
              /\ ~answered'
              /\ quizCardClasses' \cap (Marks \cup {"flipped"}) = {}
              /\ \A k \in DOMAIN choiceBtns' : choiceBtns'[k].classes = {}
              /\ explanations' = << >>
              /\ nextDisplay' = "none"
              /\ nextText' = (IF currentIndex' = NumQuestions - 1 THEN "Finish" ELSE "Next")
        /\ currentIndex' >= NumQuestions =>
              /\ scoreboardDisplay' = "flex"
              /\ UNCHANGED << frontText, choiceBtns, answered, quizCardClasses,
                              explanations, nextDisplay, nextText >> ]_vars

\* the last question, just rendered by an advance
C9_Witness ==
  /\ pc = "ready" /\ currentIndex = 4
  /\ ~answered /\ explanations = << >>
  /\ nextText = "Finish" /\ nextDisplay = "none"

RetryCompletePending == \E t \in timers : t.kind = "retryComplete"

ControlsDisabled == lockBtnDisabled /\ ignoreBtnDisabled

ControlsEnabled == ~lockBtnDisabled /\ ~ignoreBtnDisabled

\* the completion callback of a retry's reverse timeline runs in this step
RetryCompletes ==
  \E t \in timers : t.kind = "retryComplete" /\ t.rem = 0 /\ t \notin timers'

\* C10: choosing Ignore disables both controls, makes the error overlay
\* interactive and binds the retry handler; the controls are disabled as long
\* as the handler is bound or the reverse timeline runs; a control is enabled
\* again only by the completion of the reverse timeline, which enables both;
\* and once retry was clicked both controls are eventually enabled.
C10_IgnoreThenRetry ==
  /\ [][ IgnoreClick =>
           /\ ControlsDisabled'
           /\ errorPointerEvents' = "auto"
           /\ retryListeners' = 1 ]_vars
  /\ [](retryListeners > 0 \/ RetryCompletePending => ControlsDisabled)
  /\ [][ (lockBtnDisabled /\ ~lockBtnDisabled') \/ (ignoreBtnDisabled /\ ~ignoreBtnDisabled')
           => RetryCompletes /\ retryListeners = 0 ]_vars
  /\ [][ RetryCompletes => ControlsEnabled' ]_vars
  /\ (RetryCompletePending ~> ControlsEnabled)

\* back in AwaitingChoice after Ignore and retry: the completion callback has
\* switched the overlay's pointer events off and both controls are enabled
C10_Witness ==
  /\ Shown("scene1")
  /\ errorPointerEvents = "none"
  /\ retryListeners = 0
  /\ ControlsEnabled

\* the lock sequence has started: its overlay is fading in or has faded in
Locked ==
  \/ \E t \in timers :
        t.kind = "lockedOverlayStart" \/ (t.kind = "tween" /\ t.prop = "lockedOverlay")
  \/ opacity["lockedOverlay"] = 1

\* C11: a Lock choice starts the lock sequence; once it has started it stays
\* started, both controls are disabled in every later state, and no error
\* sequence starts, whatever clicks and timers follow.
C11_LockedIsTerminal ==
  /\ [][ LockClick => Locked' ]_vars
  /\ [][ Locked => Locked' ]_vars
  /\ [](Locked => ControlsDisabled)
  /\ [][ Locked => ~IgnoreClick ]_vars

\* locked after an Ignore and retry round: the overlay has faded in, the
\* toggle is checked, the error overlay was switched off by the retry
C11_Witness ==
  /\ Shown("scene1")
  /\ opacity["lockedOverlay"] = 1 /\ lockToggleChecked
  /\ errorPointerEvents = "none"
  /\ ControlsDisabled

RetryCompleteTimers == { t \in timers : t.kind = "retryComplete" }

\* C12: at most one retry handler is bound; an error sequence has its handler
\* bound or its reverse sequence running, never both and never two of either;
\* a click on retry with no handler bound changes nothing.
C12_RetryAtMostOnce ==
  /\ [](retryListeners \in {0, 1})
  /\ [](retryListeners + Cardinality(RetryCompleteTimers) <= 1)
  /\ [][ RetryClick /\ retryListeners = 0 => UNCHANGED vars ]_vars

\* retry was clicked and the reverse sequence runs: a second click finds no handler
C12_Witness ==
  /\ Shown("scene1")
  /\ retryListeners = 0
  /\ \E t \in RetryCompleteTimers : t.rem = 3

\* C13: the lock sequence and the error sequence start only after the typed
\* effect's completion callback has run: every accepted Lock or Ignore click
\* happens with typedDone set.
C13_SequencesOnlyAfterTyped ==
  [][ (LockClick \/ IgnoreClick) => typedDone ]_vars

\* C14: an answered card is a flipped card; once answered, a click on the
\* card leaves its flip state as it was.
C14_AnsweredImpliesFlipped ==
  (pc = "ready" /\ answered) => "flipped" \in quizCardClasses

ShowTimers == { t \in timers : t.kind = "showNotif" }

\* C15: at most one show timer is pending, a show timer is pending only while
\* the first question is the rendered card, and the notification carries the
\* show mark only while currentIndex is 0.
C15_ShowTimerOnlyOnFirstCard ==
  /\ Cardinality(ShowTimers) <= 1
  /\ ShowTimers # {} => currentIndex = 0
  /\ "show" \in notifClasses => currentIndex = 0

\* the second question was rendered before the show timer of the first fired:
\* the timer is gone and the notification was never shown
C15_Witness ==
  /\ Shown("scene2")
  /\ currentIndex = 1
  /\ ShowTimers = {}
  /\ notifClasses = {}

\* C16: on the first question a flipped card is a card the user has clicked
\* since it was rendered; from that click until the next render the
\* notification does not carry the show mark.
C16_NoShowAfterCardClick ==
  (Shown("scene2") /\ currentIndex = 0 /\ "flipped" \in quizCardClasses)
    => "show" \notin notifClasses

HideTimers == { t \in timers : t.kind = "hideNotif" }

\* C17: the notification's display changes only to none, only in a step in
\* which a due hide timer fires and the element carries the hide mark; the
\* step that starts a dismissal leaves the display alone and leaves a hide
\* timer of 800 ms pending; no step takes a notification that carries the
\* show mark out of the layout; with a hide of 800 ms and a show of 1000 ms
\* no hide timer is left pending when the notification is shown again.
C17_RemovedOnlyByHideTimer ==
  /\ [](("show" \in notifClasses) => HideTimers = {})
  /\ [][ /\ notifDisplay' # notifDisplay =>
              /\ notifDisplay' = "none"
              /\ "hide" \in notifClasses
              /\ \E t \in HideTimers : t.rem = 0 /\ t \notin timers'
         /\ ("show" \in notifClasses /\ "show" \notin notifClasses') =>
              /\ notifDisplay' = notifDisplay
              /\ \E t \in HideTimers' : t.rem = HideDelay
         /\ "show" \in notifClasses => notifDisplay' = notifDisplay
       ]_vars

\* the notification was shown, dismissed, and taken out of the layout by its
\* hide timer
C17_Witness ==
  /\ Shown("scene2")
  /\ notifDisplay = "none"
  /\ notifClasses = {"hide"}
  /\ HideTimers = {}

\* C18: a notification that carries the show mark is in the layout, also when
\* it is the show timer armed by a restart that set the mark and the
\* notification was dismissed and taken out of the layout before.
C18_ShownIsVisible ==
  (Shown("scene2") /\ "show" \in notifClasses) => notifDisplay # "none"

ShakeTimers == { t \in timers : t.kind = "shakeOff" }

\* C19: while the removal timer of an error sequence is pending, the
\* container carries the shake class.
C19_ShakeForFullDuration ==
  (Shown("scene1") /\ ShakeTimers # {}) => shake

\* C20: once the first card is rendered the advance control is displayed
\* exactly when answered is set; every step that advances currentIndex (only
\* goToNext does) finds the current question answered, one of its controls
\* having been selected.
C20_AdvanceVisibleIffAnswered ==
  /\ [](pc = "ready" => (nextDisplay = "block" <=> answered))
  /\ [][ currentIndex' = currentIndex + 1 => answered /\ picked # 0 ]_vars

\* the third question is answered and its advance control is displayed
C20_Witness ==
  /\ Shown("scene2")
  /\ currentIndex = 2
  /\ answered /\ picked # 0
  /\ nextDisplay = "block"

\* C21: the scoreboard is displayed exactly when currentIndex has reached
\* the number of questions; a step that takes currentIndex back (only
\* restartQuiz does) starts with the scoreboard displayed and every question
\* advanced past; in the step that makes the scoreboard appear exactly 5
\* selections have been accepted since the last (re)start.
C21_ScoreboardIffFinished ==
  /\ [](pc = "ready" => (scoreboardDisplay = "flex" <=> currentIndex >= NumQuestions))
  /\ [][ currentIndex' < currentIndex =>
           scoreboardDisplay = "flex" /\ currentIndex >= NumQuestions ]_vars
  /\ [][ (scoreboardDisplay # "flex" /\ scoreboardDisplay' = "flex") =>
           selections = 5 /\ selections' = 5 ]_vars

\* the scoreboard is displayed after the fifth question was advanced past:
\* five selections were accepted in this run, three of them correct
C21_Witness ==
  /\ Shown("scene2")
  /\ scoreboardDisplay = "flex"
  /\ currentIndex = NumQuestions
  /\ selections = 5 /\ counted = 3

\* timers and tweens of the lock, error and retry sequences still to fire
SequenceTimers ==
  { t \in timers :
      t.kind \in {"tween", "lockedOverlayStart", "lockToggleOn",
                  "retryComplete", "shakeOff"} }

\* the error overlay is fading in, opaque, or takes pointer events
ErrorOverlayActive ==
  \/ opacity["errorOverlay"] = 1
  \/ errorPointerEvents = "auto"
  \/ \E t \in timers : t.kind = "tween" /\ t.prop = "errorOverlay" /\ t.val = 1

\* C22: a Lock or Ignore click is accepted only while no timer or tween of a
\* lock, error or retry sequence is pending, and in no state are the locked
\* overlay and the error overlay both activated.
C22_SequencesExclusive ==
  /\ [][ (LockClick \/ IgnoreClick) => SequenceTimers = {} ]_vars
  /\ [](~(Locked /\ ErrorOverlayActive))
====
